---- MODULE Spec2Model ----
(***************************************************************************)
(* Model of src/app.py: the upload / cancel / send-events handlers of the  *)
(* incident-events uploader, the CSV schema validator (process_csv), the   *)
(* timestamp normalizer inlined in send_events, and the module-level       *)
(* uploaded_data store.                                                    *)
(*                                                                         *)
(* Strings are sequences of one-character strings, so that strip(),        *)
(* lower(), endswith(), the 'UTC' substring test and strptime are computed *)
(* character by character, as the Python code computes them.               *)
(***************************************************************************)
EXTENDS Integers, Sequences, FiniteSets, TLC

(***************************************************************************)
(* Bounds of the model.                                                    *)
(***************************************************************************)
\* Largest number of data rows of a valid uploaded table.
MaxRows == 3
\* Number of data rows of the larger batches (rows RowSlash and RowJunk only).
BatchRows == 5

(***************************************************************************)
(* Characters and strings.                                                 *)
(***************************************************************************)
Digits == {"0", "1", "2", "3", "4", "5", "6", "7", "8", "9"}

\* The characters str.strip() removes (str.isspace), within the alphabet used.
Whitespace == {" ", "\t"}

DigitVal(c) ==
    CASE c = "0" -> 0 [] c = "1" -> 1 [] c = "2" -> 2 [] c = "3" -> 3
      [] c = "4" -> 4 [] c = "5" -> 5 [] c = "6" -> 6 [] c = "7" -> 7
      [] c = "8" -> 8 [] c = "9" -> 9

\* str.lower() of one character, for the letters the model uses in upper case.
LowerChar(c) ==
    CASE c = "U" -> "u" [] c = "T" -> "t" [] c = "C" -> "c" [] c = "G" -> "g"
      [] c = "M" -> "m" [] c = "S" -> "s" [] c = "V" -> "v" [] c = "D" -> "d"
      [] c = "A" -> "a" [] OTHER -> c

Lower(s) == [i \in 1..Len(s) |-> LowerChar(s[i])]

\* s[from:to] of Python, 1-based and inclusive here; empty when from > to.
Slice(s, from, to) == IF from > to THEN <<>> ELSE SubSeq(s, from, to)

RECURSIVE LStrip(_, _)
LStrip(s, chars) ==
    IF s # <<>> /\ Head(s) \in chars THEN LStrip(Tail(s), chars) ELSE s

RECURSIVE RStrip(_, _)
RStrip(s, chars) ==
    IF s # <<>> /\ s[Len(s)] \in chars
    THEN RStrip(SubSeq(s, 1, Len(s) - 1), chars)
    ELSE s

\* str.strip(): leading and trailing whitespace removed.
Strip(s) == RStrip(LStrip(s, Whitespace), Whitespace)

\* str.endswith(suffix)
EndsWith(s, suffix) ==
    /\ Len(s) >= Len(suffix)
    /\ SubSeq(s, Len(s) - Len(suffix) + 1, Len(s)) = suffix

\* `sub in s` for strings.
Contains(s, sub) ==
    \E i \in 1..(Len(s) - Len(sub) + 1) : SubSeq(s, i, i + Len(sub) - 1) = sub

(***************************************************************************)
(* Cells, rows and tables the requests are drawn from.                     *)
(***************************************************************************)
Empty == <<>>
Blank == <<" ">>
Tabs == <<" ", "\t">>

ColUserId == <<"u", "s", "e", "r", "_", "i", "d">>
ColIncidentName == <<"i", "n", "c", "i", "d", "e", "n", "t", "_", "n", "a", "m", "e">>
ColShortDescription ==
    <<"s", "h", "o", "r", "t", "_", "d", "e", "s", "c", "r", "i", "p", "t", "i", "o", "n">>
ColDatetime == <<"d", "a", "t", "e", "t", "i", "m", "e">>
ColOther == <<"i", "d">>

\* "03/15/2024 13:30"
TsSlash ==
    <<"0", "3", "/", "1", "5", "/", "2", "0", "2", "4", " ", "1", "3", ":", "3", "0">>
\* "2024-10-03 13:59:39.598 UTC"
TsMillis ==
    <<"2", "0", "2", "4", "-", "1", "0", "-", "0", "3", " ", "1", "3", ":", "5", "9",
      ":", "3", "9", ".", "5", "9", "8", " ", "U", "T", "C">>
\* "03/15/2024"
TsDateOnly == <<"0", "3", "/", "1", "5", "/", "2", "0", "2", "4">>
\* "n/a"
TsJunk == <<"n", "/", "a">>

UserA == <<"u", "1">>
UserB == <<"u", "2">>
UserC == <<"u", "3">>
UserD == <<"u", "4">>
IncName == <<"f", "i", "r", "e">>
Descr == <<"d">>

\* Data rows that pass validation; each has its own user_id.
RowSlash == <<UserA, IncName, Descr, TsSlash>>
RowMillis == <<UserB, IncName, Empty, TsMillis>>
RowJunk == <<UserC, IncName, Blank, TsJunk>>
RowDateOnly == <<UserD, IncName, Descr, TsDateOnly>>

ValidRows == {RowSlash, RowMillis, RowJunk, RowDateOnly}

\* Data rows that fail validation: a blank required cell, or a wrong arity.
InvalidRows ==
    { <<Empty, IncName, Descr, TsSlash>>,
      <<Blank, IncName, Descr, TsSlash>>,
      <<UserA, Empty, Descr, TsSlash>>,
      <<UserA, Blank, Empty, TsSlash>>,
      <<UserA, IncName, Descr, Empty>>,
      <<UserA, IncName, Blank, Tabs>>,
      <<>>,
      <<UserA, IncName, TsSlash>>,
      <<UserA, IncName, Descr, TsSlash, Descr>>,
      <<Empty, IncName, TsSlash>> }

SeqsUpTo(S, n) == UNION {[1..k -> S] : k \in 0..n}

REQUIRED_COLUMNS == <<ColUserId, ColIncidentName, ColShortDescription, ColDatetime>>

\* Header rows other than the required one: reordered, renamed, short, long, empty.
OtherHeaders ==
    { <<ColIncidentName, ColUserId, ColShortDescription, ColDatetime>>,
      <<ColUserId, ColIncidentName, ColDatetime, ColShortDescription>>,
      <<ColOther, ColIncidentName, ColShortDescription, ColDatetime>>,
      <<ColUserId, ColIncidentName, ColShortDescription, ColDatetime \o <<" ">>>>,
      <<ColUserId, ColIncidentName, ColShortDescription>>,
      <<ColUserId, ColIncidentName, ColShortDescription, ColDatetime, ColOther>>,
      <<>> }

\* Tables csv.reader can give: rows of string cells, the first the header.
ValidTables == {<<REQUIRED_COLUMNS>> \o rows : rows \in SeqsUpTo(ValidRows, MaxRows) \ {<<>>}}

\* Tables that fail validation: no row at all, a header alone, another header
\* (with or without data rows), and an offending data row as the first or the
\* second data row, followed or not by a valid one.
InvalidTables ==
    {<<>>, <<REQUIRED_COLUMNS>>}
      \cup {<<h>> \o rows : h \in OtherHeaders, rows \in {<<>>, <<RowSlash>>}}
      \cup {<<REQUIRED_COLUMNS>> \o pre \o <<bad>> \o post :
                pre \in {<<>>, <<RowMillis>>}, bad \in InvalidRows,
                post \in {<<>>, <<RowJunk>>}}

\* Larger valid tables, of rows with a parsable and an unparsable timestamp.
BatchTables == {<<REQUIRED_COLUMNS>> \o rows : rows \in [1..BatchRows -> {RowSlash, RowJunk}]}

UploadTables == ValidTables \cup BatchTables \cup InvalidTables

\* "data.csv", "DATA.CSV", ".csv", "data.txt", "" as the client names the file.
NameCsv == <<"d", "a", "t", "a", ".", "c", "s", "v">>
NameUpperCsv == <<"D", "A", "T", "A", ".", "C", "S", "V">>
NameDotCsv == <<".", "c", "s", "v">>
NameTxt == <<"d", "a", "t", "a", ".", "t", "x", "t">>

FileNames == {NameCsv, NameUpperCsv, NameDotCsv, NameTxt, Empty}


(***************************************************************************)
(* process_csv: the schema validator.                                      *)
(***************************************************************************)
\* Faulty variant of RowError: short_description is required like the others.
RowErrorAllRequired(headers, row) ==
    IF Len(row) # Len(headers) THEN "RowArityMismatch"
    ELSE IF Strip(row[1]) = <<>> THEN "MissingField:user_id"
    ELSE IF Strip(row[2]) = <<>> THEN "MissingField:incident_name"
    ELSE IF Strip(row[3]) = <<>> THEN "MissingField:short_description"
    ELSE IF Strip(row[4]) = <<>> THEN "MissingField:datetime"
    ELSE "none"

\* Faulty variant of RowError: the datetime test reads row[2] of the code
\* (short_description) instead of row[3].
RowErrorWrongColumn(headers, row) ==
    IF Len(row) # Len(headers) THEN "RowArityMismatch"
    ELSE IF Strip(row[1]) = <<>> THEN "MissingField:user_id"
    ELSE IF Strip(row[2]) = <<>> THEN "MissingField:incident_name"
    ELSE IF Strip(row[3]) = <<>> THEN "MissingField:datetime"
    ELSE "none"

\* The ValueError process_csv raises for data row `row`, or "none".  row_num
\* is the 1-indexed position the message names (the header is row 1).
RowError(headers, row) ==
    IF Len(row) # Len(headers) THEN "RowArityMismatch"
    ELSE IF Strip(row[1]) = <<>> THEN "MissingField:user_id"
    ELSE IF Strip(row[2]) = <<>> THEN "MissingField:incident_name"
    ELSE IF Strip(row[4]) = <<>> THEN "MissingField:datetime"
    ELSE "none"

\* Faulty variant of ValidateRows: the loop returns after its first turn, so
\* only the first data row is checked.
ValidateRowsFirstOnly(records, row_num) ==
    IF row_num > Len(records) THEN [error |-> "none", row_num |-> 0]
    ELSE IF RowError(records[1], records[row_num]) # "none"
         THEN [error |-> RowError(records[1], records[row_num]), row_num |-> row_num]
         ELSE [error |-> "none", row_num |-> 0]

\* The loop over records[1:]: the first offending row decides.
RECURSIVE ValidateRows(_, _)
ValidateRows(records, row_num) ==
    IF row_num > Len(records) THEN [error |-> "none", row_num |-> 0]
    ELSE IF RowError(records[1], records[row_num]) # "none"
         THEN [error |-> RowError(records[1], records[row_num]), row_num |-> row_num]
         ELSE ValidateRows(records, row_num + 1)

\* Faulty variant of process_csv: the header is compared as a set of column
\* names, so that a reordered header passes.
process_csv_any_order(records) ==
    IF records = <<>> \/ Len(records) < 2
    THEN [error |-> "EmptyInput", row_num |-> 0, data |-> <<>>]
    ELSE IF {records[1][i] : i \in 1..Len(records[1])}
              # {REQUIRED_COLUMNS[i] : i \in 1..Len(REQUIRED_COLUMNS)}
    THEN [error |-> "SchemaMismatch", row_num |-> 1, data |-> <<>>]
    ELSE LET v == ValidateRows(records, 2)
         IN  [error |-> v.error, row_num |-> v.row_num,
              data |-> IF v.error = "none" THEN records ELSE <<>>]

\* process_csv on the rows csv.reader gives: the records themselves, or the
\* ValueError raised.
process_csv(records) ==
    IF records = <<>> \/ Len(records) < 2
    THEN [error |-> "EmptyInput", row_num |-> 0, data |-> <<>>]
    ELSE IF records[1] # REQUIRED_COLUMNS
    THEN [error |-> "SchemaMismatch", row_num |-> 1, data |-> <<>>]
    ELSE LET v == ValidateRows(records, 2)
         IN  [error |-> v.error, row_num |-> v.row_num,
              data |-> IF v.error = "none" THEN records ELSE <<>>]


(***************************************************************************)
(* datetime.strptime, as the regular expression Python builds from a       *)
(* format and the conversion of what it finds (Lib/_strptime.py).          *)
(***************************************************************************)
\* The three formats of timestamp_formats, as directive / literal tokens.
FmtSlash == <<"%m", "/", "%d", "/", "%Y", " ", "%H", ":", "%M">>
FmtMillis ==
    <<"%Y", "-", "%m", "-", "%d", " ", "%H", ":", "%M", ":", "%S", ".", "%f", " ", "%Z">>
FmtSeconds ==
    <<"%Y", "-", "%m", "-", "%d", " ", "%H", ":", "%M", ":", "%S", " ", "%Z">>

timestamp_formats == <<FmtSlash, FmtMillis, FmtSeconds>>

D09 == Digits
D19 == Digits \ {"0"}

\* Zone names %Z accepts: "utc", "gmt" and time.tzname, which is ("UTC", "UTC")
\* on a server whose local zone is UTC.
TzNames == << <<{"u"}, {"t"}, {"c"}>>, <<{"g"}, {"m"}, {"t"}>> >>

\* Length of the run of whitespace of s that starts at p.
RECURSIVE SpaceRun(_, _)
SpaceRun(s, p) ==
    IF p <= Len(s) /\ s[p] \in Whitespace THEN 1 + SpaceRun(s, p + 1) ELSE 0

\* The alternatives of a token's regular expression in the order the regex
\* engine tries them, each a sequence of character sets.
Alternatives(tok, s, p) ==
    CASE tok = "%m" -> << <<{"1"}, {"0", "1", "2"}>>, <<{"0"}, D19>>, <<D19>> >>
      [] tok = "%d" -> << <<{"3"}, {"0", "1"}>>, <<{"1", "2"}, D09>>, <<{"0"}, D19>>,
                          <<D19>>, <<{" "}, D19>> >>
      [] tok = "%Y" -> << <<D09, D09, D09, D09>> >>
      [] tok = "%H" -> << <<{"2"}, {"0", "1", "2", "3"}>>, <<{"0", "1"}, D09>>, <<D09>> >>
      [] tok = "%M" -> << <<{"0", "1", "2", "3", "4", "5"}, D09>>, <<D09>> >>
      [] tok = "%S" -> << <<{"6"}, {"0", "1"}>>, <<{"0", "1", "2", "3", "4", "5"}, D09>>,
                          <<D09>> >>
      [] tok = "%f" -> [i \in 1..6 |-> [j \in 1..(7 - i) |-> D09]]
      [] tok = "%Z" -> TzNames
      [] tok = " " ->
            LET n == SpaceRun(s, p)
            IN  [i \in 1..n |-> [j \in 1..(n + 1 - i) |-> Whitespace]]
      [] OTHER -> << <<{tok}>> >>

\* The regex is compiled with IGNORECASE.
AltMatches(alt, s, p) ==
    /\ p + Len(alt) - 1 <= Len(s)
    /\ \A i \in 1..Len(alt) : s[p + i - 1] \in alt[i] \/ LowerChar(s[p + i - 1]) \in alt[i]

NoMatch == [ok |-> FALSE, end |-> 0, found |-> <<>>]

\* re.match of the format's regex from token k at position p: the first
\* alternative (with backtracking) under which the rest of the format matches.
RECURSIVE MatchFrom(_, _, _, _)
RECURSIVE TryAlts(_, _, _, _, _, _)
MatchFrom(fmt, k, s, p) ==
    IF k > Len(fmt) THEN [ok |-> TRUE, end |-> p, found |-> <<>>]
    ELSE TryAlts(fmt, k, s, p, Alternatives(fmt[k], s, p), 1)

TryAlts(fmt, k, s, p, alts, i) ==
    IF i > Len(alts) THEN NoMatch
    ELSE IF AltMatches(alts[i], s, p)
    THEN LET r == MatchFrom(fmt, k + 1, s, p + Len(alts[i]))
         IN  IF r.ok
             THEN [ok |-> TRUE, end |-> r.end,
                   found |-> <<[d |-> fmt[k], text |-> Slice(s, p, p + Len(alts[i]) - 1)]>>
                                \o r.found]
             ELSE TryAlts(fmt, k, s, p, alts, i + 1)
    ELSE TryAlts(fmt, k, s, p, alts, i + 1)

\* int(text): the decimal value, blanks around the digits ignored.
RECURSIVE IntOf(_)
IntOf(text) ==
    IF text = <<>> THEN 0
    ELSE IF text[Len(text)] \in Digits
    THEN 10 * IntOf(SubSeq(text, 1, Len(text) - 1)) + DigitVal(text[Len(text)])
    ELSE IntOf(SubSeq(text, 1, Len(text) - 1))

\* The text found for directive d (the empty text when the format has none).
RECURSIVE Found(_, _)
Found(found, d) ==
    IF found = <<>> THEN <<>>
    ELSE IF Head(found).d = d THEN Head(found).text
    ELSE Found(Tail(found), d)

\* %f: the digits padded with zeros on the right to six, as microseconds.
RECURSIVE PadRight(_, _)
PadRight(text, n) == IF Len(text) >= n THEN text ELSE PadRight(text \o <<"0">>, n)

Microseconds(text) == IF text = <<>> THEN 0 ELSE IntOf(PadRight(text, 6))

IsLeap(year) == year % 4 = 0 /\ (year % 100 # 0 \/ year % 400 = 0)

DaysInMonth(year, month) ==
    IF month = 2 THEN (IF IsLeap(year) THEN 29 ELSE 28)
    ELSE IF month \in {4, 6, 9, 11} THEN 30 ELSE 31

\* datetime.strptime(s, fmt): a naive datetime, or the ValueError raised when
\* the string does not match, data remains after the match, or the fields
\* found are no date and time (day past the month's end, year 0, second 60/61).
strptime(s, fmt) ==
    LET m == MatchFrom(fmt, 1, s, 1)
        year == IntOf(Found(m.found, "%Y"))
        month == IntOf(Found(m.found, "%m"))
        day == IntOf(Found(m.found, "%d"))
        second == IntOf(Found(m.found, "%S"))
    IN  IF ~m.ok THEN [ok |-> FALSE, error |-> "does not match format"]
        ELSE IF m.end # Len(s) + 1 THEN [ok |-> FALSE, error |-> "unconverted data remains"]
        ELSE IF year < 1 \/ day > DaysInMonth(year, month) \/ second > 59
        THEN [ok |-> FALSE, error |-> "out of range"]
        ELSE [ok |-> TRUE,
              dt |-> [year |-> year, month |-> month, day |-> day,
                      hour |-> IntOf(Found(m.found, "%H")),
                      minute |-> IntOf(Found(m.found, "%M")),
                      second |-> second,
                      microsecond |-> Microseconds(Found(m.found, "%f")),
                      tzinfo |-> "none"]]

(***************************************************************************)
(* The timestamp normalizer of send_events (lines 186-209).                *)
(***************************************************************************)
UTC == <<"U", "T", "C">>

\* One turn of the loop over timestamp_formats: the datetime this format
\* gives, labelled UTC (never converted), or the ValueError.
TryFormat(timestamp_str, fmt) ==
    LET r == strptime(timestamp_str, fmt)
    IN  IF ~r.ok THEN r
        ELSE IF Contains(timestamp_str, UTC)
        THEN IF fmt[Len(fmt)] = "%Z"
             THEN [ok |-> TRUE, dt |-> [r.dt EXCEPT !.tzinfo = "UTC"]]
             ELSE r
        ELSE [ok |-> TRUE, dt |-> [r.dt EXCEPT !.tzinfo = "UTC"]]

\* The loop: the first format that parses wins; dt stays None when none does.
RECURSIVE ParseFrom(_, _)
ParseFrom(timestamp_str, i) ==
    IF i > Len(timestamp_formats) THEN [ok |-> FALSE, error |-> "Could not parse timestamp"]
    ELSE IF TryFormat(timestamp_str, timestamp_formats[i]).ok
    THEN TryFormat(timestamp_str, timestamp_formats[i])
    ELSE ParseFrom(timestamp_str, i + 1)

ParseTimestamp(timestamp_str) == ParseFrom(timestamp_str, 1)

\* date.toordinal() - date(1970, 1, 1).toordinal()
RECURSIVE DaysBeforeMonth(_, _)
DaysBeforeMonth(year, month) ==
    IF month = 1 THEN 0
    ELSE DaysBeforeMonth(year, month - 1) + DaysInMonth(year, month - 1)

DaysSinceEpoch(dt) ==
    LET y == dt.year - 1
    IN  y * 365 + (y \div 4) - (y \div 100) + (y \div 400)
          + DaysBeforeMonth(dt.year, dt.month) + dt.day - 719163

\* Faulty variant of UnixTimestamp: the wall clock is read in a server zone
\* one hour east of UTC and converted.
UnixTimestampLocalZone(dt) ==
    [days |-> DaysSinceEpoch(dt),
     millis |-> ((dt.hour * 60 + dt.minute) * 60 + dt.second) * 1000
                  + (dt.microsecond \div 1000) - 3600000]

\* int(dt.timestamp() * 1000) for a datetime labelled UTC, kept as whole days
\* since the epoch and milliseconds within the day (the product does not fit
\* the model checker's integers).  A datetime with no tzinfo would be read in
\* the server's local zone, taken as UTC here.
UnixTimestamp(dt) ==
    [days |-> DaysSinceEpoch(dt),
     millis |-> ((dt.hour * 60 + dt.minute) * 60 + dt.second) * 1000
                  + (dt.microsecond \div 1000)]


(***************************************************************************)
(* The upload handler.                                                     *)
(***************************************************************************)
\* werkzeug's secure_filename on a name of ASCII letters, digits, ".", "_" and
\* "-": nothing to replace or drop, leading and trailing "." and "_" stripped.
secure_filename(name) == RStrip(LStrip(name, {".", "_"}), {".", "_"})

\* What can go wrong in the try block besides validation: creating the
\* staging file, saving the upload into it, opening or decoding it.
Faults == {"none", "tmpfile", "save", "read"}

\* The upload requests of the model: rejected before staging, failing in the
\* staging or reading of the file, and every table under an accepted name.
UploadRequests ==
    {[has_file |-> FALSE, filename |-> NameCsv, fault |-> "none", table |-> <<>>]}
      \cup {[has_file |-> TRUE, filename |-> n, fault |-> "none",
             table |-> <<REQUIRED_COLUMNS, RowSlash>>] : n \in FileNames}
      \cup {[has_file |-> TRUE, filename |-> NameCsv, fault |-> f,
             table |-> <<REQUIRED_COLUMNS, RowSlash>>] : f \in Faults}
      \cup {[has_file |-> TRUE, filename |-> NameCsv, fault |-> "none", table |-> t] :
                t \in UploadTables}

\* upload_file on a request: the response, whether uploaded_data is assigned
\* and with what.  error: the exception logged at line 72 (the specific rule
\* a ValueError of process_csv names, with its row), "rejected" for a request
\* turned down before the try block.  uncaught: the handler ended in an exception of its own
\* (Flask answers 500); tmp_left: the staging file still exists afterwards.
upload_file(req) ==
    LET reject(msg) ==
            [status |-> 400, message |-> msg, assigned |-> FALSE, data |-> <<>>,
             error |-> "rejected", row_num |-> 0, uncaught |-> FALSE, tmp_left |-> FALSE]
        failed(err, row_num, unbound, left) ==
            [status |-> 500, message |-> "Failed to process the uploaded file.",
             assigned |-> FALSE, data |-> <<>>, error |-> err, row_num |-> row_num,
             uncaught |-> unbound, tmp_left |-> left]
        csv == process_csv(req.table)
    IN  IF ~req.has_file THEN reject("No file part.")
        ELSE IF req.filename = <<>> THEN reject("No selected file.")
        ELSE IF ~EndsWith(Lower(secure_filename(req.filename)), <<".", "c", "s", "v">>)
        THEN reject("Please upload a valid CSV file.")
        \* line 58 raises: temp_file_path is unbound in the finally block
        ELSE IF req.fault = "tmpfile" THEN failed("tmpfile", 0, TRUE, FALSE)
        \* line 59 raises: the file exists, temp_file_path (line 60) is unbound
        ELSE IF req.fault = "save" THEN failed("save", 0, TRUE, TRUE)
        ELSE IF req.fault = "read" THEN failed("read", 0, FALSE, FALSE)
        ELSE IF csv.error # "none" THEN failed(csv.error, csv.row_num, FALSE, FALSE)
        ELSE [status |-> 200, message |-> "preview", assigned |-> TRUE, data |-> csv.data,
              error |-> "none", row_num |-> 0, uncaught |-> FALSE, tmp_left |-> FALSE]

(***************************************************************************)
(* State.                                                                  *)
(***************************************************************************)
VARIABLES
    uploaded_data,      \* the module-level store: a table, <<>> when empty
    pc,                 \* where the send_events request stands
    headers,            \* send_events' locals ...
    idx,
    successful_events,
    failed_events,
    total_events,
    records,            \* the rows the for loop has still to visit
    user_id,            \* the local the except block logs: bound or not
    status,             \* the status send_events answered with, 0 while running
    collector,          \* the calls the running dispatch made on amplitude_client
    outcomes,           \* per visited row: the row and how it ended
    snapshot,           \* uploaded_data as it was when the dispatch started
    prev,               \* the request answered before the one in `last`
    last                \* the request being handled, and its response once made

vars ==
    <<uploaded_data, pc, headers, idx, successful_events, failed_events, total_events,
      records, user_id, status, collector, outcomes, snapshot, prev, last>>

\* What a send_events request holds while it runs and when it has answered.
dispatch ==
    <<headers, idx, successful_events, failed_events, total_events, records, user_id,
      status, collector, outcomes, snapshot>>

NoIdx == [user_id_idx |-> 0, incident_name_idx |-> 0, description_idx |-> 0, datetime_idx |-> 0]
Unbound == [bound |-> FALSE, value |-> <<>>]
NoRequest == [op |-> "none", status |-> 0]

Init ==
    /\ uploaded_data = <<>>
    /\ pc = "idle"
    /\ headers = <<>>
    /\ idx = NoIdx
    /\ successful_events = 0
    /\ failed_events = 0
    /\ total_events = 0
    /\ records = <<>>
    /\ user_id = Unbound
    /\ status = 0
    /\ collector = <<>>
    /\ outcomes = <<>>
    /\ snapshot = <<>>
    /\ prev = "none"
    /\ last = NoRequest

(***************************************************************************)
(* /upload and /cancel.                                                    *)
(***************************************************************************)
\* Faulty variant of Assign: the store is assigned before the outcome is
\* known, so a failed upload empties it.
AssignAlways(res) == res.data

\* The store after upload_file: line 64 assigns it only on success.
Assign(res) == IF res.assigned THEN res.data ELSE uploaded_data

\* One /upload request, run while no other request is.
UploadFile ==
    /\ pc = "idle"
    /\ \E req \in UploadRequests :
          LET res == upload_file(req)
          IN  /\ uploaded_data' = Assign(res)
              /\ last' = [op |-> "upload", status |-> res.status, req |-> req, res |-> res]
    /\ pc' = "done"
    /\ UNCHANGED <<dispatch, prev>>

\* Faulty variant of cancel_upload: without the `global` statement line 153
\* binds a local and the store keeps its dataset.
cancel_upload_local == uploaded_data

\* cancel_upload: the store after it.
cancel_upload == <<>>

\* One /cancel request, run while no other request is.
CancelUpload ==
    /\ pc = "idle"
    /\ uploaded_data' = cancel_upload
    /\ last' = [op |-> "cancel", status |-> 200]
    /\ pc' = "done"
    /\ UNCHANGED <<dispatch, prev>>

\* The response of the request in `last` goes out and the handler's frame is
\* gone; the server is ready for the next request.
Return ==
    /\ pc = "done"
    /\ pc' = "idle"
    /\ prev' = last.op
    /\ last' = NoRequest
    /\ headers' = <<>>
    /\ idx' = NoIdx
    /\ successful_events' = 0
    /\ failed_events' = 0
    /\ total_events' = 0
    /\ records' = <<>>
    /\ user_id' = Unbound
    /\ status' = 0
    /\ collector' = <<>>
    /\ outcomes' = <<>>
    /\ snapshot' = <<>>
    /\ UNCHANGED uploaded_data


(***************************************************************************)
(* send_events, one action per read of the global uploaded_data and per    *)
(* turn of the loop.                                                       *)
(***************************************************************************)
\* Line 159, the two operands of the NoDataset check.
IsEmpty(data) == data = <<>>
TooShort(data) == Len(data) < 2

\* data[1:] of Python: the empty list when data is empty.
Rest(data) == IF data = <<>> THEN <<>> ELSE Tail(data)

\* list.index(x): the first position of x (1-based here), 0 for the ValueError.
IndexOf(row, x) ==
    IF \E i \in 1..Len(row) : row[i] = x
    THEN CHOOSE i \in 1..Len(row) : row[i] = x /\ \A j \in 1..(i - 1) : row[j] # x
    ELSE 0

\* Lines 163-166.
ColumnIndexes(hdr) ==
    [user_id_idx |-> IndexOf(hdr, ColUserId),
     incident_name_idx |-> IndexOf(hdr, ColIncidentName),
     description_idx |-> IndexOf(hdr, ColShortDescription),
     datetime_idx |-> IndexOf(hdr, ColDatetime)]

\* Faulty variant of BaseEvent: the two text properties are exchanged.
BaseEventSwapped(uid, incident_name, description, timestamp_str, unix_timestamp) ==
    [user_id |-> uid, event_type |-> "Incident",
     event_properties |-> [name |-> description, description |-> incident_name,
                           original_timestamp |-> timestamp_str],
     time |-> unix_timestamp]

\* Lines 212-221.
BaseEvent(uid, incident_name, description, timestamp_str, unix_timestamp) ==
    [user_id |-> uid, event_type |-> "Incident",
     event_properties |-> [name |-> incident_name, description |-> description,
                           original_timestamp |-> timestamp_str],
     time |-> unix_timestamp]

\* Faulty variant of RowFailure: no try block around the row, the exception
\* leaves the handler.
RowFailureUncaught(uid, why) ==
    [user_id |-> uid, outcome |-> why, tracked |-> FALSE, event |-> <<>>,
     uncaught |-> TRUE]

\* What an exception in the try block of a row leads to: the except block
\* counts the row as failed and logs user_id, which raises in its turn when
\* no row has bound user_id yet.
RowFailure(uid, why) ==
    [user_id |-> uid, outcome |-> why, tracked |-> FALSE, event |-> <<>>,
     uncaught |-> ~uid.bound]

\* One turn of the for loop (lines 175-239) on `record`, the collector
\* accepting the event or raising.
process_record(record, ix, uid_before, accepted) ==
    IF Len(record) < ix.user_id_idx THEN RowFailure(uid_before, "IndexError")
    ELSE LET uid == [bound |-> TRUE, value |-> record[ix.user_id_idx]]
         IN  IF \/ Len(record) < ix.incident_name_idx
                \/ Len(record) < ix.description_idx
                \/ Len(record) < ix.datetime_idx
             THEN RowFailure(uid, "IndexError")
             ELSE LET timestamp_str == record[ix.datetime_idx]
                      parsed == ParseTimestamp(timestamp_str)
                      event == BaseEvent(uid.value, record[ix.incident_name_idx],
                                         record[ix.description_idx], timestamp_str,
                                         UnixTimestamp(parsed.dt))
                  IN  IF ~parsed.ok THEN RowFailure(uid, "UnparsableTimestamp")
                      ELSE [user_id |-> uid,
                            outcome |-> IF accepted THEN "sent" ELSE "CollectorError",
                            tracked |-> TRUE, event |-> event, uncaught |-> FALSE]

\* Faulty variant of send_status: without the elif of line 252 a dispatch in
\* which every row failed answers 200.
send_status_no_elif(successful, failed) ==
    IF failed > 0 /\ successful > 0 THEN 207 ELSE 200

\* Lines 250-254.
send_status(successful, failed) ==
    IF failed > 0 /\ successful > 0 THEN 207
    ELSE IF failed > 0 THEN 207
    ELSE 200

\* Faulty variant of Send159a: no NoDataset check, the request goes on to
\* line 162 whatever the store holds.
Send159aUnchecked ==
    /\ pc = "idle"
    /\ snapshot' = uploaded_data
    /\ last' = [op |-> "send", status |-> 0]
    /\ status' = 0
    /\ pc' = "162"
    /\ UNCHANGED <<uploaded_data, headers, idx, successful_events, failed_events,
                   total_events, records, user_id, collector, outcomes, prev>>

\* Line 159, first operand: the request starts and reads the store.
Send159a ==
    /\ pc = "idle"
    /\ snapshot' = uploaded_data
    /\ last' = [op |-> "send", status |-> 0]
    /\ IF IsEmpty(uploaded_data)
       THEN status' = 400 /\ pc' = "done"
       ELSE status' = 0 /\ pc' = "159b"
    /\ UNCHANGED <<uploaded_data, headers, idx, successful_events, failed_events,
                   total_events, records, user_id, collector, outcomes, prev>>

\* Line 159, second operand.
Send159b ==
    /\ pc = "159b"
    /\ IF TooShort(uploaded_data)
       THEN status' = 400 /\ pc' = "done"
       ELSE status' = 0 /\ pc' = "162"
    /\ UNCHANGED <<uploaded_data, headers, idx, successful_events, failed_events,
                   total_events, records, user_id, collector, outcomes, snapshot,
                   prev, last>>

\* Lines 162-166: uploaded_data[0] raises IndexError on an empty store and
\* headers.index raises ValueError on a missing column; neither is caught.
Send162 ==
    /\ pc = "162"
    /\ IF uploaded_data = <<>>
       THEN /\ status' = 500 /\ pc' = "done"
            /\ UNCHANGED <<headers, idx>>
       ELSE /\ headers' = uploaded_data[1]
            /\ IF \E f \in DOMAIN NoIdx : ColumnIndexes(uploaded_data[1])[f] = 0
               THEN status' = 500 /\ pc' = "done" /\ UNCHANGED idx
               ELSE status' = 0 /\ pc' = "170" /\ idx' = ColumnIndexes(uploaded_data[1])
    /\ UNCHANGED <<uploaded_data, successful_events, failed_events, total_events,
                   records, user_id, collector, outcomes, snapshot, prev, last>>

\* Line 170.
Send170 ==
    /\ pc = "170"
    /\ total_events' = Len(Rest(uploaded_data))
    /\ pc' = "174"
    /\ UNCHANGED <<uploaded_data, headers, idx, successful_events, failed_events,
                   records, user_id, status, collector, outcomes, snapshot, prev, last>>

\* Line 174: the for statement evaluates uploaded_data[1:] once.
Send174 ==
    /\ pc = "174"
    /\ records' = Rest(uploaded_data)
    /\ pc' = "loop"
    /\ UNCHANGED <<uploaded_data, headers, idx, successful_events, failed_events,
                   total_events, user_id, status, collector, outcomes, snapshot,
                   prev, last>>

\* Line 223: successful_events += 1, reached when track returned.
SuccessfulAfter(successful, r) == successful + (IF r.outcome = "sent" THEN 1 ELSE 0)

\* Faulty variant of FailedAfter: a row whose timestamp does not parse is
\* skipped without being counted.
FailedAfterSkipUnparsable(failed, r) ==
    failed + (IF r.outcome \in {"sent", "UnparsableTimestamp"} THEN 0 ELSE 1)

\* Line 233: failed_events += 1, in the except block.
FailedAfter(failed, r) == failed + (IF r.outcome = "sent" THEN 0 ELSE 1)

\* Where the loop goes after a row: on to the next row (or to the flush), or
\* out of the handler when the except block itself raised.
NextRowPc(r) == IF r.uncaught THEN "done" ELSE "loop"

\* Lines 175-239: one row.
SendRow ==
    /\ pc = "loop"
    /\ records # <<>>
    /\ \E accepted \in BOOLEAN :
          LET r == process_record(Head(records), idx, user_id, accepted)
          IN  /\ user_id' = r.user_id
              /\ successful_events' = SuccessfulAfter(successful_events, r)
              /\ failed_events' = FailedAfter(failed_events, r)
              /\ collector' = IF r.tracked
                              THEN Append(collector, [call |-> "track", event |-> r.event,
                                                      accepted |-> accepted])
                              ELSE collector
              /\ outcomes' = Append(outcomes, [record |-> Head(records), outcome |-> r.outcome])
              /\ pc' = NextRowPc(r)
              /\ status' = IF r.uncaught THEN 500 ELSE 0
    /\ records' = Tail(records)
    /\ UNCHANGED <<uploaded_data, headers, idx, total_events, snapshot, prev, last>>

\* Faulty variant of Send241: the client is flushed only when an event was
\* sent.
Send241IfSent ==
    /\ pc = "loop"
    /\ records = <<>>
    /\ collector' = IF successful_events > 0
                    THEN Append(collector, [call |-> "flush"])
                    ELSE collector
    /\ pc' = "250"
    /\ UNCHANGED <<uploaded_data, headers, idx, successful_events, failed_events,
                   total_events, records, user_id, status, outcomes, snapshot, prev, last>>

\* Line 241, reached when the loop has visited every row.
Send241 ==
    /\ pc = "loop"
    /\ records = <<>>
    /\ collector' = Append(collector, [call |-> "flush"])
    /\ pc' = "250"
    /\ UNCHANGED <<uploaded_data, headers, idx, successful_events, failed_events,
                   total_events, records, user_id, status, outcomes, snapshot, prev, last>>

\* Faulty variant of Send250: a dispatch in which no row failed empties the
\* store, as if the dataset were consumed by sending it.
Send250Consumes ==
    /\ pc = "250"
    /\ status' = send_status(successful_events, failed_events)
    /\ uploaded_data' = IF failed_events = 0 THEN <<>> ELSE uploaded_data
    /\ pc' = "done"
    /\ UNCHANGED <<headers, idx, successful_events, failed_events,
                   total_events, records, user_id, collector, outcomes, snapshot,
                   prev, last>>

\* Lines 250-254.
Send250 ==
    /\ pc = "250"
    /\ status' = send_status(successful_events, failed_events)
    /\ pc' = "done"
    /\ UNCHANGED <<uploaded_data, headers, idx, successful_events, failed_events,
                   total_events, records, user_id, collector, outcomes, snapshot,
                   prev, last>>

SendEvents == Send159a \/ Send159b \/ Send162 \/ Send170 \/ Send174 \/ SendRow \/ Send241 \/ Send250

(***************************************************************************)
(* Requests run one at a time.                                             *)
(***************************************************************************)
Next == UploadFile \/ CancelUpload \/ SendEvents \/ Return

Spec == Init /\ [][Next]_vars


(***************************************************************************)
(* Requests served concurrently: /upload and /cancel requests run while a  *)
(* send_events request is between two of its reads of uploaded_data (each  *)
(* handler's only access to the store is one read or one assignment of the *)
(* global).                                                                *)
(***************************************************************************)
\* Largest number of data rows of the tables uploaded during a dispatch.
ConcRows == 2

ConcRequests ==
    {[has_file |-> TRUE, filename |-> NameCsv, fault |-> "none", table |-> t] :
        t \in {<<REQUIRED_COLUMNS>> \o rows : rows \in SeqsUpTo({RowSlash, RowJunk}, ConcRows)}}

\* An /upload request served by another thread: line 64 is its one write.
ConcUploadFile ==
    /\ \E req \in ConcRequests : uploaded_data' = Assign(upload_file(req))
    /\ UNCHANGED <<pc, dispatch, prev, last>>

\* A /cancel request served by another thread: line 153.
ConcCancelUpload ==
    /\ uploaded_data' = cancel_upload
    /\ UNCHANGED <<pc, dispatch, prev, last>>

NextConc == ConcUploadFile \/ ConcCancelUpload \/ SendEvents \/ Return

SpecConc == Init /\ [][NextConc]_vars

(***************************************************************************)
(* Properties.                                                             *)
(***************************************************************************)
\* A send_events request has answered.
SendDone == pc = "done" /\ last.op = "send"

\* An /upload request has answered.
UploadDone == pc = "done" /\ last.op = "upload"

\* The data rows of a table.
DataRows(table) == Rest(table)

\* The track calls of the dispatch, and those the collector accepted.
TrackCalls == {i \in 1..Len(collector) : collector[i].call = "track"}
AcceptedCalls == {i \in TrackCalls : collector[i].accepted}

\* The data rows of `table` whose timestamp none of the formats parses.
Unparsable(table) ==
    {i \in 2..Len(table) : ~ParseTimestamp(table[i][4]).ok}

\* C1: a dispatch over a stored dataset of n data rows visits every row in
\* order whatever rows fail normalization or forwarding, answers 200 or 207,
\* and ends with successful + failed = total = n, successful being the number
\* of rows that were normalized and accepted by the collector.
C1_EveryRowAccounted ==
    (SendDone /\ snapshot # <<>>) =>
        /\ status \in {200, 207}
        /\ total_events = Len(DataRows(uploaded_data))
        /\ [i \in 1..Len(outcomes) |-> outcomes[i].record] = DataRows(uploaded_data)
        /\ Cardinality(TrackCalls) = total_events - Cardinality(Unparsable(uploaded_data))
        /\ successful_events = Cardinality(AcceptedCalls)
        /\ successful_events + failed_events = total_events

\* A dispatch of three rows ended with a row that failed normalization, a
\* row the collector refused and, after both, a row that was sent.
C1_Witness ==
    /\ SendDone
    /\ total_events = 3
    /\ outcomes[1].outcome = "UnparsableTimestamp"
    /\ outcomes[2].outcome = "CollectorError"
    /\ outcomes[3].outcome = "sent"

\* C2: with a collector that accepts every event, a dataset of n rows of which
\* k have unparsable timestamps gives successful = n - k, failed = k, exactly
\* n - k events forwarded, and a status other than 200 when k > 0.
C2_UnparsableCounted ==
    (SendDone /\ snapshot # <<>> /\ AcceptedCalls = TrackCalls) =>
        LET n == Len(DataRows(uploaded_data))
            k == Cardinality(Unparsable(uploaded_data))
        IN  /\ successful_events = n - k
            /\ failed_events = k
            /\ Cardinality(TrackCalls) = n - k
            /\ total_events = n
            /\ (k > 0 => status = 207)
            /\ (k = 0 => status = 200)

\* The case of the specification: 5 rows, 2 of them unparsable, give 3 and 2.
C2_Witness ==
    /\ SendDone
    /\ AcceptedCalls = TrackCalls
    /\ Len(DataRows(uploaded_data)) = 5
    /\ Cardinality(Unparsable(uploaded_data)) = 2
    /\ successful_events = 3
    /\ failed_events = 2
    /\ status = 207

\* C3: send-events answers 400 exactly when the store is empty or has no data
\* row, 200 exactly when the dataset is non-empty and no row failed, and 207
\* exactly when some row failed; it answers nothing else.
C3_ThreeStatuses ==
    SendDone =>
        /\ status \in {200, 207, 400}
        /\ (status = 400) <=> (uploaded_data = <<>> \/ DataRows(uploaded_data) = <<>>)
        /\ (status = 200) <=> (DataRows(uploaded_data) # <<>> /\ failed_events = 0)
        /\ (status = 207) <=> (failed_events > 0)

\* A dispatch in which every row failed answered 207.
C3_Witness ==
    /\ SendDone
    /\ status = 207
    /\ successful_events = 0
    /\ failed_events = 2

\* C4: send-events on an empty store answers 400 (NoDataset) with no track and
\* no flush call made, and the store is still empty.
C4_NoDatasetNoCalls ==
    (SendDone /\ snapshot = <<>>) =>
        /\ status = 400
        /\ collector = <<>>
        /\ outcomes = <<>>
        /\ uploaded_data = <<>>

\* send-events has answered on a store still empty after a refused upload.
C4_Witness ==
    /\ SendDone
    /\ snapshot = <<>>
    /\ status = 400
    /\ prev = "upload"

\* C5: send-events right after cancel ends as send-events as the first request
\* of the server does: the same response (400), no collector call, the store
\* empty.
C5_CancelThenSend ==
    (SendDone /\ prev \in {"none", "cancel"}) =>
        /\ status = 400
        /\ collector = <<>>
        /\ uploaded_data = <<>>
        /\ successful_events = 0 /\ failed_events = 0 /\ total_events = 0

\* send-events has answered right after a cancel.
C5_Witness ==
    /\ SendDone
    /\ prev = "cancel"
    /\ status = 400


\* C6: a dispatch running beside uploads and cancels that passed its NoDataset
\* check and answered worked on the one dataset the store held when it
\* started: header, total_events and the rows visited are that dataset's, and
\* successful + failed = total.
C6_OneSnapshot ==
    (SendDone /\ status \in {200, 207}) =>
        /\ headers = snapshot[1]
        /\ total_events = Len(DataRows(snapshot))
        /\ [i \in 1..Len(outcomes) |-> outcomes[i].record] = DataRows(snapshot)
        /\ successful_events + failed_events = total_events

\* A cell str.strip() leaves nothing of.
IsBlank(cell) == \A i \in 1..Len(cell) : cell[i] \in Whitespace

\* A data row the specification calls valid: four cells, user_id,
\* incident_name and datetime not blank.
WellFormed(row) ==
    /\ Len(row) = 4
    /\ ~IsBlank(row[1]) /\ ~IsBlank(row[2]) /\ ~IsBlank(row[4])

\* The upload reached validation: it was not turned down for its file part or
\* name, and staging and reading the file went well.
Validated ==
    /\ UploadDone
    /\ last.req.has_file
    /\ last.req.filename \in {NameCsv, NameUpperCsv}
    /\ last.req.fault = "none"

\* C7: an upload whose table has exactly the required header and at least one
\* data row, every data row valid, succeeds, and the store then holds that
\* table: same header, same data rows in the same order.
C7_ValidTableStored ==
    (/\ Validated
     /\ Len(last.req.table) >= 2
     /\ last.req.table[1] = REQUIRED_COLUMNS
     /\ \A i \in 2..Len(last.req.table) : WellFormed(last.req.table[i]))
      => /\ last.res.error = "none"
         /\ last.status = 200
         /\ uploaded_data = last.req.table
         /\ Len(DataRows(uploaded_data)) = Len(last.req.table) - 1

\* A valid table of three rows, one of them with an empty short_description,
\* was stored by an upload that followed another upload.
C7_Witness ==
    /\ Validated
    /\ prev = "upload"
    /\ Len(last.req.table) = 4
    /\ last.req.table[3] = RowMillis
    /\ uploaded_data = last.req.table

\* C8 as claimed: every table whose header row differs from the required one
\* fails validation with SchemaMismatch and gives no dataset.
C8_Claimed_SchemaMismatch ==
    (Validated /\ last.req.table # <<>> /\ last.req.table[1] # REQUIRED_COLUMNS)
      => /\ last.res.error = "SchemaMismatch"
         /\ ~last.res.assigned

\* C8, amended: a table whose header row differs from the required one fails
\* validation with SchemaMismatch when it has a data row and with EmptyInput
\* when the header is its only row; either way no dataset is produced.
C8_SchemaMismatch ==
    (Validated /\ last.req.table # <<>> /\ last.req.table[1] # REQUIRED_COLUMNS)
      => /\ Len(last.req.table) >= 2 => last.res.error = "SchemaMismatch"
         /\ Len(last.req.table) = 1 => last.res.error = "EmptyInput"
         /\ ~last.res.assigned
         /\ last.status # 200
         /\ uploaded_data # last.req.table

\* A table with the required columns in another order and a valid data row
\* was refused for its header.
C8_Witness ==
    /\ Validated
    /\ last.req.table = <<<<ColIncidentName, ColUserId, ColShortDescription, ColDatetime>>,
                          RowSlash>>
    /\ last.res.error = "SchemaMismatch"

\* The first data row of the uploaded table that is not WellFormed, 0 if none.
FirstOffending(table) ==
    IF \A i \in 2..Len(table) : WellFormed(table[i]) THEN 0
    ELSE CHOOSE i \in 2..Len(table) :
            ~WellFormed(table[i]) /\ \A j \in 2..(i - 1) : WellFormed(table[j])

\* C9: in validation a row of four cells is accepted when user_id,
\* incident_name and datetime are not blank, whatever short_description is,
\* and refused with MissingField when one of the three is blank; changing
\* short_description to empty, blank or text never changes a row's verdict.
C9_ShortDescriptionExempt ==
    (/\ Validated
     /\ Len(last.req.table) >= 2
     /\ last.req.table[1] = REQUIRED_COLUMNS)
      => LET table == last.req.table
             bad == FirstOffending(table)
         IN  /\ bad = 0 => last.res.error = "none"
             /\ (bad # 0 /\ Len(table[bad]) = 4) =>
                    /\ last.res.error \in {"MissingField:user_id", "MissingField:incident_name",
                                           "MissingField:datetime"}
                    /\ last.res.row_num = bad
             /\ \A i \in 2..Len(table) : \A d \in {Empty, Blank, Tabs, Descr} :
                    Len(table[i]) = 4 =>
                        RowError(table[1], [table[i] EXCEPT ![3] = d])
                          = RowError(table[1], table[i])

\* Validation passed a first data row with an empty short_description and
\* refused the next, whose incident_name is blank, as row 3.
C9_Witness ==
    /\ Validated
    /\ last.req.table = <<REQUIRED_COLUMNS, RowMillis, <<UserA, Blank, Empty, TsSlash>>>>
    /\ last.res.error = "MissingField:incident_name"
    /\ last.res.row_num = 3

\* The errors of the validator.
ValidationErrors ==
    {"EmptyInput", "SchemaMismatch", "RowArityMismatch", "MissingField:user_id",
     "MissingField:incident_name", "MissingField:datetime"}

\* C10: an upload that fails validation is answered 400, 500 is answered only
\* for failures that are not validation failures, and a successful upload is
\* answered 200.
C10_ValidationIs400 ==
    UploadDone =>
        /\ last.res.error \in ValidationErrors => last.status = 400
        /\ last.status = 500 => last.res.error \notin ValidationErrors
        /\ last.res.error = "none" => last.status = 200


\* C11: every upload request ends with a response of its handler (no
\* exception leaves upload_file) and leaves no staging file behind.
C11_StagingReleased ==
    UploadDone => (~last.res.uncaught /\ ~last.res.tmp_left)

\* " 00:00", the time the specification has appended to a date-only string.
Midnight == <<" ", "0", "0", ":", "0", "0">>

\* The track call made for the i-th row visited, 0 when none was made.
TrackCallOf(i) ==
    Cardinality({j \in 1..i : outcomes[j].outcome \in {"sent", "CollectorError"}})

\* C12: a row whose timestamp is a date alone (MM/DD/YYYY, 10 characters) is
\* normalized as the same date at 00:00: it is forwarded with that instant
\* and counted as sent when the collector accepts it, not counted as failed
\* for its timestamp.
C12_DateOnlyIsMidnight ==
    SendDone =>
        \A i \in 1..Len(outcomes) :
            LET ts == outcomes[i].record[4]
            IN  (Len(ts) = 10 /\ ParseTimestamp(ts \o Midnight).ok) =>
                    /\ outcomes[i].outcome # "UnparsableTimestamp"
                    /\ collector[TrackCallOf(i)].event.time
                         = UnixTimestamp(ParseTimestamp(ts \o Midnight).dt)

\* The flush calls of the dispatch.
FlushCalls == {i \in 1..Len(collector) : collector[i].call = "flush"}

\* C13: a dispatch that passed the NoDataset check calls flush exactly once,
\* after the last row was visited and every track call made, and before it
\* answers; also when every row failed and nothing was forwarded.
C13_FlushOnceAtEnd ==
    /\ pc \in {"159b", "162", "170", "174", "loop"} => FlushCalls = {}
    /\ (pc = "250" \/ (SendDone /\ snapshot # <<>>)) =>
          /\ FlushCalls = {Len(collector)}
          /\ Len(outcomes) = total_events
          /\ records = <<>>
    /\ pc = "250" => status = 0
    /\ (SendDone /\ snapshot = <<>>) => FlushCalls = {}

\* Every row of a dispatch failed, no event was forwarded, and the one call
\* on the collector is the flush.
C13_Witness ==
    /\ SendDone
    /\ status = 207
    /\ total_events = 2
    /\ TrackCalls = {}
    /\ collector = <<[call |-> "flush"]>>


\* C14: with requests run one at a time, a successful upload replaces the
\* store by exactly its own dataset, a failed upload (missing file part,
\* empty filename, non-.csv filename, validation error, unexpected error)
\* leaves the store as it was, a cancel empties it, and no other step changes
\* it: the store is the dataset of the most recent successful upload when no
\* cancel came after it, and empty otherwise.
C14_StoreIsLatestUpload ==
    [][ /\ (pc = "idle" /\ last'.op = "upload") =>
              uploaded_data' = IF last'.status = 200 THEN last'.req.table
                                                     ELSE uploaded_data
        /\ (pc = "idle" /\ last'.op = "cancel") => uploaded_data' = <<>>
        /\ (pc # "idle" \/ last'.op = "send") => uploaded_data' = uploaded_data
      ]_vars

\* A failed upload (a validation error) has answered while the store still
\* holds the dataset of the earlier successful upload.
C14_Witness ==
    /\ UploadDone
    /\ prev = "upload"
    /\ last.status = 500
    /\ last.res.error = "SchemaMismatch"
    /\ uploaded_data = <<REQUIRED_COLUMNS, RowSlash, RowMillis>>


\* C15: under every interleaving of a dispatch with cancels and uploads of
\* other requests, the dispatch ends with 200, 207 or 400: a cancel between
\* the emptiness check and the later reads of the store cannot make it end
\* in an uncaught error.
C15_DispatchEndsDocumented ==
    SendDone => status \in {200, 207, 400}


\* A validated Dataset: the required header, then at least one data row,
\* every data row valid.
IsDataset(table) ==
    /\ Len(table) >= 2
    /\ table[1] = REQUIRED_COLUMNS
    /\ \A i \in 2..Len(table) : WellFormed(table[i])

\* C16: with requests run one at a time the store is always empty or a
\* validated Dataset; so in a dispatch the lookup of the columns by name and
\* the extraction of the four fields of a row never fail, and user_id is
\* bound whenever a row has failed.
C16_StoreEmptyOrDataset ==
    /\ uploaded_data = <<>> \/ IsDataset(uploaded_data)
    /\ status # 500
    /\ pc \in {"170", "174", "loop", "250"} =>
          /\ idx.user_id_idx = 1 /\ idx.incident_name_idx = 2
          /\ idx.description_idx = 3 /\ idx.datetime_idx = 4
    /\ \A i \in 1..Len(outcomes) : outcomes[i].outcome # "IndexError"
    /\ outcomes # <<>> => user_id.bound

\* The first row of a dispatch on a stored Dataset has failed (its timestamp
\* matches no format) and the failure handler had its user_id.
C16_Witness ==
    /\ pc = "loop"
    /\ IsDataset(uploaded_data)
    /\ Len(outcomes) = 1
    /\ outcomes[1].outcome = "UnparsableTimestamp"
    /\ failed_events = 1
    /\ user_id = [bound |-> TRUE, value |-> uploaded_data[2][1]]


\* The rows visited so far by the dispatch, in the order of the visits.
Visited == [i \in 1..Len(outcomes) |-> outcomes[i].record]

\* C17: no step of send-events changes the store, nor does its return; so a
\* dispatch that directly follows another dispatch visits the full stored
\* dataset again, makes a track call for every row whose timestamp is
\* parsable, and its counts are the ones the collector's answers determine
\* (successful = accepted calls, failed = the other rows): with the same
\* answers, the same counts as the dispatch before it.
C17_SendLeavesStore ==
    /\ [][ (last.op = "send" \/ last'.op = "send") => uploaded_data' = uploaded_data ]_vars
    /\ []( (SendDone /\ prev = "send" /\ snapshot # <<>>) =>
              /\ snapshot = uploaded_data
              /\ Visited = DataRows(uploaded_data)
              /\ total_events = Len(DataRows(uploaded_data))
              /\ Cardinality(TrackCalls)
                   = total_events - Cardinality(Unparsable(uploaded_data))
              /\ successful_events = Cardinality(AcceptedCalls)
              /\ failed_events = total_events - Cardinality(AcceptedCalls) )

\* A dispatch that directly followed another one has sent both rows of the
\* stored dataset again.
C17_Witness ==
    /\ SendDone
    /\ prev = "send"
    /\ status = 200
    /\ successful_events = 2
    /\ uploaded_data = <<REQUIRED_COLUMNS, RowSlash, RowMillis>>

\* What the event of a data row has to carry, the time left aside.
EventOf(row) ==
    [user_id |-> row[1], event_type |-> "Incident",
     event_properties |-> [name |-> row[2], description |-> row[3],
                           original_timestamp |-> row[4]]]

\* The events of the rows of `rows` that have a parsable timestamp, in row
\* order.
RECURSIVE ExpectedEvents(_)
ExpectedEvents(rows) ==
    IF rows = <<>> THEN <<>>
    ELSE (IF ParseTimestamp(Head(rows)[4]).ok THEN <<EventOf(Head(rows))>> ELSE <<>>)
           \o ExpectedEvents(Tail(rows))

\* The events handed to the collector so far, in call order, the time left
\* aside.
TrackedEvents ==
    [i \in 1..Cardinality(TrackCalls) |->
        [user_id |-> collector[i].event.user_id,
         event_type |-> collector[i].event.event_type,
         event_properties |-> collector[i].event.event_properties]]

\* C18: at every point of a dispatch the events handed to the collector are,
\* in row order, those of the visited rows with a parsable timestamp: one per
\* such row, none for a row with an unparsable timestamp, each with its row's
\* user_id, event_type "Incident", and the row's incident_name, description
\* and raw datetime cell as name, description and original_timestamp; at the
\* end the visited rows are the dataset's data rows.
C18_EventsFollowRows ==
    /\ TrackCalls = 1..Cardinality(TrackCalls)
    /\ TrackedEvents = ExpectedEvents(Visited)
    /\ (SendDone /\ snapshot # <<>>) => Visited = DataRows(uploaded_data)

\* A dispatch over a parsable row with an empty description, an unparsable
\* row and a second parsable row has handed over two events, in that order.
C18_Witness ==
    /\ SendDone
    /\ uploaded_data = <<REQUIRED_COLUMNS, RowMillis, RowJunk, RowSlash>>
    /\ Cardinality(TrackCalls) = 2
    /\ collector[1].event.event_properties.original_timestamp = TsMillis
    /\ collector[1].event.event_properties.description = Empty
    /\ collector[2].event.user_id = RowSlash[1]
    /\ collector[2].event.event_properties.original_timestamp = TsSlash


(***************************************************************************)
(* The normalizer on its own: dispatches over datasets whose datetime      *)
(* cells are wall clocks written in each of the three formats.             *)
(***************************************************************************)
\* Calendar dates with their day number since 1970-01-01
\* (date.toordinal() - 719163).
WallDates ==
    { [year |-> 1970, month |-> 1, day |-> 1, days |-> 0],
      [year |-> 2024, month |-> 2, day |-> 29, days |-> 19782],
      [year |-> 2024, month |-> 10, day |-> 3, days |-> 19999] }

\* Times of day, to the second, and milliseconds.
WallTimes ==
    { [hour |-> 0, minute |-> 0, second |-> 0],
      [hour |-> 13, minute |-> 59, second |-> 0],
      [hour |-> 23, minute |-> 59, second |-> 59] }
WallMillis == {0, 598}

WallClocks == [date : WallDates, time : WallTimes, ms : WallMillis]

\* Zone names as they appear after %Z: only the first contains 'UTC'.
ZoneTexts == {<<"U", "T", "C">>, <<"u", "t", "c">>, <<"G", "M", "T">>}

DigitChar(n) == <<"0", "1", "2", "3", "4", "5", "6", "7", "8", "9">>[n + 1]
Pad2(n) == <<DigitChar(n \div 10), DigitChar(n % 10)>>
Pad3(n) == <<DigitChar(n \div 100)>> \o Pad2(n % 100)
Pad4(n) == Pad2(n \div 100) \o Pad2(n % 100)

\* The wall clock `w` written in the format `f`, with the zone text `z` where
\* the format has %Z.
Render(w, f, z) ==
    LET hm  == Pad2(w.time.hour) \o <<":">> \o Pad2(w.time.minute)
        iso == Pad4(w.date.year) \o <<"-">> \o Pad2(w.date.month) \o <<"-">>
                 \o Pad2(w.date.day) \o <<" ">> \o hm \o <<":">> \o Pad2(w.time.second)
    IN  IF f = FmtSlash
        THEN Pad2(w.date.month) \o <<"/">> \o Pad2(w.date.day) \o <<"/">>
               \o Pad4(w.date.year) \o <<" ">> \o hm
        ELSE IF f = FmtSeconds THEN iso \o <<" ">> \o z
        ELSE iso \o <<".">> \o Pad3(w.ms) \o <<" ">> \o z

\* The formats that can write `w` without loss: minutes only for FmtSlash,
\* whole seconds for FmtSeconds.
FormatsOf(w) ==
    {FmtMillis}
      \cup (IF w.ms = 0 THEN {FmtSeconds} ELSE {})
      \cup (IF w.ms = 0 /\ w.time.second = 0 THEN {FmtSlash} ELSE {})

\* Every way of writing a wall clock, with the string it gives.
Writings ==
    UNION { UNION { { [w |-> w, fmt |-> f, s |-> Render(w, f, z)]
                      : z \in (IF f = FmtSlash THEN {<<>>} ELSE ZoneTexts) }
                    : f \in FormatsOf(w) }
            : w \in WallClocks }

TsRow(ts) == <<UserA, IncName, Descr, ts>>

\* Stored datasets of one row, and of two rows that write the same wall clock
\* in two ways.
TsTables ==
    { <<REQUIRED_COLUMNS, TsRow(a.s)>> : a \in Writings }
      \cup { <<REQUIRED_COLUMNS, TsRow(p[1].s), TsRow(p[2].s)>>
             : p \in {q \in Writings \X Writings : q[1].w = q[2].w /\ q[1].s # q[2].s} }

\* A server whose store holds one of these datasets, no request running.
InitTs ==
    /\ uploaded_data \in TsTables
    /\ pc = "idle"
    /\ headers = <<>>
    /\ idx = NoIdx
    /\ successful_events = 0
    /\ failed_events = 0
    /\ total_events = 0
    /\ records = <<>>
    /\ user_id = Unbound
    /\ status = 0
    /\ collector = <<>>
    /\ outcomes = <<>>
    /\ snapshot = <<>>
    /\ prev = "none"
    /\ last = NoRequest

NextTs == SendEvents \/ Return

SpecTs == InitTs /\ [][NextTs]_vars

\* The instant of the wall clock `w` read as UTC.
Instant(w) ==
    [days |-> w.date.days,
     millis |-> ((w.time.hour * 60 + w.time.minute) * 60 + w.time.second) * 1000 + w.ms]

\* The first format of the list that strptime accepts for `ts`, 0 when none.
FirstMatching(ts) ==
    LET ok == {k \in 1..Len(timestamp_formats) : strptime(ts, timestamp_formats[k]).ok}
    IN  IF ok = {} THEN 0 ELSE CHOOSE k \in ok : \A m \in ok : k <= m

\* The raw datetime cell and the time of the i-th call on the collector.
RawOf(i) == collector[i].event.event_properties.original_timestamp
TimeOf(i) == collector[i].event.time

\* C19: normalization labels the wall clock as UTC and converts nothing: a
\* string that writes a wall clock in any of the three formats, with zone
\* text 'UTC' or another, gets the instant of that wall clock read as UTC, so
\* two strings that write the same wall clock in different formats get the
\* same instant; the first format of the list that matches decides.
C19_WallClockLabelledUtc ==
    SendDone =>
        /\ \A i \in 1..Len(outcomes) : outcomes[i].outcome # "UnparsableTimestamp"
        /\ \A i \in TrackCalls :
              /\ \A a \in Writings : a.s = RawOf(i) => TimeOf(i) = Instant(a.w)
              /\ FirstMatching(RawOf(i)) # 0
              /\ TimeOf(i) = UnixTimestamp(
                     TryFormat(RawOf(i), timestamp_formats[FirstMatching(RawOf(i))]).dt)
        /\ \A i, j \in TrackCalls :
              \A a \in Writings :
                 a.s = RawOf(i) =>
                    \A b \in Writings :
                       (b.s = RawOf(j) /\ a.w = b.w) => TimeOf(i) = TimeOf(j)

\* 2024-10-03 13:59 written as "10/03/2024 13:59" and as
\* "2024-10-03 13:59:00.000 UTC": both rows were sent with the same instant.
C19_Witness ==
    /\ SendDone
    /\ Cardinality(TrackCalls) = 2
    /\ RawOf(1) = <<"1", "0", "/", "0", "3", "/", "2", "0", "2", "4", " ",
                    "1", "3", ":", "5", "9">>
    /\ RawOf(2) = <<"2", "0", "2", "4", "-", "1", "0", "-", "0", "3", " ",
                    "1", "3", ":", "5", "9", ":", "0", "0", ".", "0", "0", "0",
                    " ", "U", "T", "C">>
    /\ TimeOf(1) = [days |-> 19999, millis |-> 50340000]
    /\ TimeOf(2) = TimeOf(1)

====
